---- MODULE Spec2Model ----
(***************************************************************************)
(* Verification model of the two utilities of effect-crashcourse:          *)
(*   utils/effectify.ts  effectify / effectifyMapError (callback adapter)  *)
(*   utils/decode.ts     decodeEither / parseEither / decodeAbsolve, and   *)
(*                       the earlier zod-based decode                      *)
(* JavaScript values are records of strings so that values of different    *)
(* JavaScript types can be compared.                                       *)
(***************************************************************************)
EXTENDS Integers, Sequences, FiniteSets, TLC

VARIABLES
    adapted,    \* which adapter produced the adapted function: "none" before effectify(fn) is called
    effects,    \* the Effect values returned by calls of the adapted function (each closes over its args)
    runs,       \* the executions of those Effect values by the runtime
    fnCalls,    \* log: every invocation of the wrapped function fn, with the arguments it received
    mapCalls,   \* log: every invocation of mapError, with the run it served and its argument
    thrown,     \* TRUE once an exception escaped the adapter or the decode wrapper to its caller
    dSchema,    \* the schema given to the decode wrapper
    dInput,     \* the input value (an object on the heap, shared by every decode call)
    dResults,   \* the results of the decode calls made so far
    objs,       \* the error values constructed so far, in order of construction (the index is the reference)
    lastEq,     \* the last Equal.equals comparison made: its two references and its result
    sProg,      \* scope chapter: which of the useFileDescriptor programs runs
    sFiber,     \* scope chapter: the fiber running it (position, pending interrupt, failure being handled, exit)
    sScope,     \* scope chapter: the Scope made by the program: its state and its finalizers
    sFd,        \* scope chapter: the file descriptor of the resource and whether it is open
    sLog,       \* scope chapter: the lines logged, in order
    lMain,      \* layer chapter: how far the main script got
    lScopes,    \* layer chapter: the Scopes made so far, each with its parent and finalizers
    lFd,        \* layer chapter: the file descriptor of FileDescriptorLive and whether it is open
    lRuntime,   \* layer chapter: the context of the runtime made by makeAppRuntime
    lRuns,      \* layer chapter: the programs run through the runtime
    lLog,       \* layer chapter: the lines logged, in order
    fExample,   \* fiber chapter: which example runs
    fFibers,    \* fiber chapter: the fibers, the main one first
    fNow,       \* fiber chapter: the clock, in milliseconds
    fDone,      \* fiber chapter: the fibers that ended, in the order they ended
    fLog,       \* fiber chapter: the lines logged, in order
    fOut        \* fiber chapter: what console.log printed

effVars == <<adapted, effects, runs, fnCalls, mapCalls>>
decVars == <<dSchema, dInput, dResults>>
utilVars == <<effVars, thrown, decVars>>
errVars == <<objs, lastEq>>
scopeVars == <<sProg, sFiber, sScope, sFd, sLog>>
layerVars == <<lMain, lScopes, lFd, lRuntime, lRuns, lLog>>
fiberVars == <<fExample, fFibers, fNow, fDone, fLog, fOut>>
exVars == <<errVars, scopeVars, layerVars, fiberVars>>

vars == <<utilVars, exVars>>

----------------------------------------------------------------------------
(* Bounds *)

MaxEffects == 1
MaxRuns == 2
MaxDecodes == 2
MaxObjects == 3
MaxFd == 4

----------------------------------------------------------------------------
(* JavaScript values *)

JsVal(type, repr) == [type |-> type, repr |-> repr, tag |-> "", inner |-> ""]

JsNull == JsVal("null", "null")
JsUndefined == JsVal("undefined", "undefined")

\* the error arguments a wrapped function may hand to its callback
ErrorValues ==
    { JsNull, JsVal("number", "0"), JsVal("string", ""), JsVal("object", "Error:ENOENT") }

\* the data arguments a wrapped function may hand to its callback
DataValues == { JsUndefined, JsVal("object", "Buffer") }

\* the leading arguments the adapted function is called with
ArgLists ==
    { <<>>,
      <<JsVal("string", "a.txt"), JsVal("string", "utf8")>>,
      <<JsVal("string", "utf8"), JsVal("string", "a.txt")>> }

\* What a wrapped function does with the callback it is given:
\*   "sync"   it invokes callback(error, data) before it returns
\*   "async"  it returns, and the callback is invoked later
\*   "never"  it returns and never invokes the callback
\*   "throw"  it throws error before invoking the callback
\* A Node-style function reports an error as callback(error, undefined).
FnBehaviours ==
    { [mode |-> m, error |-> JsNull, data |-> d] : m \in {"sync", "async"}, d \in DataValues }
    \cup { [mode |-> m, error |-> e, data |-> JsUndefined] :
             m \in {"sync", "async"}, e \in ErrorValues }
    \cup { [mode |-> "never", error |-> JsNull, data |-> JsUndefined],
           [mode |-> "throw", error |-> JsVal("object", "Error:ENOENT"), data |-> JsUndefined] }

\* ECMAScript ToBoolean, the test made by `if (error)`
ToBoolean(v) ==
    ~ \/ v.type \in {"null", "undefined"}
      \/ (v.type = "boolean" /\ v.repr = "false")
      \/ (v.type = "number" /\ v.repr \in {"0", "NaN"})
      \/ (v.type = "string" /\ v.repr = "")

IsNullish(v) == v.type \in {"null", "undefined"}

\* e => new ReadFileError(e): an object tagged ReadFileError that holds e
MapError(e) == [type |-> "object", repr |-> e.repr, tag |-> "ReadFileError", inner |-> e.type]

\* the callback passed to fn as its last argument by run r
CallbackOf(r) == [type |-> "function", repr |-> "callback", tag |-> "", inner |-> ToString(r)]

----------------------------------------------------------------------------
(* Exits of an execution *)

Pending == [kind |-> "pending", value |-> JsUndefined]
Succeed(a) == [kind |-> "success", value |-> a]
Fail(e) == [kind |-> "failure", value |-> e]
Die(e) == [kind |-> "die", value |-> e]

\* resume(effect): only the first resume of an execution counts
Resume(exit, effect) == IF exit.kind = "pending" THEN effect ELSE exit

----------------------------------------------------------------------------
(* utils/effectify.ts *)

\* What one invocation of the adapter's callback does: the exit of the
\* execution after it, the calls of mapError it made, and whether it raised
\* an exception to its caller (the wrapped function).
CallbackResult(exit, calls, raised) == [exit |-> exit, calls |-> calls, raised |-> raised]

\* faulty variant of EffectifyCallback: the success branch resumes with the
\* callback's first argument instead of its second
EffectifyCallbackWrongArgument(r, exit, error, data) ==
    IF ToBoolean(error)
    THEN CallbackResult(Resume(exit, Fail(error)), <<>>, FALSE)
    ELSE CallbackResult(Resume(exit, Succeed(error)), <<>>, FALSE)

\* faulty variant of EffectifyCallback: a flag of the module, shared by all
\* executions, records that a callback has resumed; the callbacks after it
\* resume nothing
EffectifyCallbackShared(r, exit, error, data) ==
    IF \E q \in 1..Len(runs) : q # r /\ runs[q].called
    THEN CallbackResult(exit, <<>>, FALSE)
    ELSE IF ToBoolean(error)
         THEN CallbackResult(Resume(exit, Fail(error)), <<>>, FALSE)
         ELSE CallbackResult(Resume(exit, Succeed(data)), <<>>, FALSE)

\* faulty variant of EffectifyCallback: `if (error) throw error`
EffectifyCallbackThrows(r, exit, error, data) ==
    IF ToBoolean(error)
    THEN CallbackResult(exit, <<>>, TRUE)
    ELSE CallbackResult(Resume(exit, Succeed(data)), <<>>, FALSE)

\* the callback of effectify, invoked for run r:
\*   (error, data) => { if (error) resume(fail(error)) else resume(succeed(data)) }
EffectifyCallback(r, exit, error, data) ==
    IF ToBoolean(error)
    THEN CallbackResult(Resume(exit, Fail(error)), <<>>, FALSE)
    ELSE CallbackResult(Resume(exit, Succeed(data)), <<>>, FALSE)

\* faulty variant of EffectifyMapErrorCallback: mapError(error) is evaluated
\* before the branch, so it also runs when the callback reports success
EffectifyMapErrorCallbackEager(r, exit, error, data) ==
    IF ToBoolean(error)
    THEN CallbackResult(Resume(exit, Fail(MapError(error))), <<[run |-> r, arg |-> error]>>, FALSE)
    ELSE CallbackResult(Resume(exit, Succeed(data)), <<[run |-> r, arg |-> error]>>, FALSE)

\* the callback of effectifyMapError, invoked for run r:
\*   (error, data) => { if (error) resume(fail(mapError(error))) else resume(succeed(data)) }
EffectifyMapErrorCallback(r, exit, error, data) ==
    IF ToBoolean(error)
    THEN CallbackResult(Resume(exit, Fail(MapError(error))), <<[run |-> r, arg |-> error]>>, FALSE)
    ELSE CallbackResult(Resume(exit, Succeed(data)), <<>>, FALSE)

\* the callback the adapted function hands to fn
Callback(r, exit, error, data) ==
    IF adapted = "effectifyMapError"
    THEN EffectifyMapErrorCallback(r, exit, error, data)
    ELSE EffectifyCallback(r, exit, error, data)

\* the arguments fn receives: fn(...args, callback)
FnArguments(args, r) == args \o <<CallbackOf(r)>>

\* effectify(fn) or effectifyMapError(fn, mapError): returns the adapted function
Effectify(which) ==
    /\ adapted = "none"
    /\ adapted' = which
    /\ UNCHANGED <<effects, runs, fnCalls, mapCalls, thrown, decVars, exVars>>

\* faulty variant of CallAdapted: fn is invoked when the adapted function is
\* called, as a Promise executor would, not when the Effect is executed
CallAdaptedEager(args) ==
    /\ adapted # "none"
    /\ Len(effects) < MaxEffects
    /\ effects' = Append(effects, [args |-> args])
    /\ fnCalls' = Append(fnCalls, [run |-> 0, received |-> FnArguments(args, 0)])
    /\ UNCHANGED <<adapted, runs, mapCalls, thrown, decVars, exVars>>

\* adaptedFn(...args): returns Effect.async(register) without running register
CallAdapted(args) ==
    /\ adapted # "none"
    /\ Len(effects) < MaxEffects
    /\ effects' = Append(effects, [args |-> args])
    /\ UNCHANGED <<adapted, runs, fnCalls, mapCalls, thrown, decVars, exVars>>

\* The runtime executes effect e: register(resume) runs fn(...args, callback),
\* and fn behaves as b says. Whatever register throws (fn itself, or the
\* callback invoked inside fn) is caught by the runtime, which resumes the
\* execution with a defect.
ExecuteEffect(e, b) ==
    /\ e \in 1..Len(effects)
    /\ Len(runs) < MaxRuns
    /\ LET r == Len(runs) + 1
           run == [effect |-> e, mode |-> b.mode, error |-> b.error, data |-> b.data,
                   called |-> FALSE, exit |-> Pending]
           res == Callback(r, Pending, b.error, b.data)
       IN /\ fnCalls' = Append(fnCalls, [run |-> r, received |-> FnArguments(effects[e].args, r)])
          /\ CASE b.mode = "sync" ->
                    /\ mapCalls' = mapCalls \o res.calls
                    /\ runs' = Append(runs, [run EXCEPT
                            !.exit = IF res.raised THEN Resume(res.exit, Die(b.error)) ELSE res.exit,
                            !.called = TRUE])
               [] b.mode = "throw" ->
                    /\ runs' = Append(runs, [run EXCEPT !.exit = Resume(Pending, Die(b.error))])
                    /\ UNCHANGED mapCalls
               [] OTHER ->
                    /\ runs' = Append(runs, run)
                    /\ UNCHANGED mapCalls
    /\ UNCHANGED <<adapted, effects, thrown, decVars, exVars>>

\* fn invokes the callback of run r after having returned: an exception the
\* callback raised would escape to the event loop
CallbackLater(r) ==
    /\ r \in 1..Len(runs)
    /\ runs[r].mode = "async"
    /\ ~ runs[r].called
    /\ LET res == Callback(r, runs[r].exit, runs[r].error, runs[r].data)
       IN /\ runs' = [runs EXCEPT ![r] = [@ EXCEPT !.exit = res.exit, !.called = TRUE]]
          /\ mapCalls' = mapCalls \o res.calls
          /\ thrown' = (thrown \/ res.raised)
    /\ UNCHANGED <<adapted, effects, fnCalls, decVars, exVars>>

----------------------------------------------------------------------------
(* Schemas, inputs and the schema library's struct parser *)

\* the property names of the modelled objects, in the order the parser visits them
KeyOrder == <<"url", "files", "extra">>
Keys == {KeyOrder[i] : i \in 1..Len(KeyOrder)}

\* a property of an input object: a string, a number, null, or no such property
PropValues == {"hello", "42", "null", "absent"}

TypeOfProp(v) == CASE v = "hello" -> "string" [] v = "42" -> "number" [] OTHER -> v

\* Schema.struct({...}): each key is declared a string, declared a number, or
\* not declared ("none"); the repository's structs declare at least one key
Schemas == {sc \in [Keys -> {"string", "number", "none"}] : \E k \in Keys : sc[k] # "none"}

NoProps == [k \in Keys |-> "absent"]

\* the unknown input: null, undefined, a primitive, or an object with properties
Inputs ==
    { [kind |-> t, props |-> NoProps] : t \in {"null", "undefined", "string", "number"} }
    \cup { [kind |-> "object", props |-> ps] : ps \in [Keys -> PropValues] }

NoValue == [kind |-> "none", props |-> NoProps]

\* the parser's errors, one per violated constraint
RootTypeError == <<"root", "", "Expected object">>
MissingError(k) == <<"key", k, "is missing">>
TypeError(k, type) == <<"key", k, IF type = "string" THEN "Expected string" ELSE "Expected number">>
UnexpectedError(k) == <<"key", k, "is unexpected">>

\* the parser's visit of the keys KeyOrder[i..]: errs are the errors found so far
RECURSIVE ParseKeys(_, _, _, _, _, _)
ParseKeys(schema, input, allErrors, isUnexpectedAllowed, i, errs) ==
    IF i > Len(KeyOrder) \/ (~ allErrors /\ errs # <<>>)
    THEN errs
    ELSE LET k == KeyOrder[i]
             v == input.props[k]
             found ==
                 CASE schema[k] = "none" /\ v = "absent" -> <<>>
                   [] schema[k] = "none" /\ v # "absent" ->
                        IF isUnexpectedAllowed THEN <<>> ELSE <<UnexpectedError(k)>>
                   [] schema[k] # "none" /\ v = "absent" -> <<MissingError(k)>>
                   [] schema[k] # "none" /\ TypeOfProp(v) # schema[k] -> <<TypeError(k, schema[k])>>
                   [] OTHER -> <<>>
         IN ParseKeys(schema, input, allErrors, isUnexpectedAllowed, i + 1, errs \o found)

\* the parser's output: a new object holding the declared properties only
ParseOutput(schema, input) ==
    [kind |-> "object",
     props |-> [k \in Keys |-> IF schema[k] = "none" THEN "absent" ELSE input.props[k]]]

\* Schema.decodeEither(schema)(input, {allErrors, isUnexpectedAllowed}) and
\* schema.safeParse(input): the errors found, the output when there is none,
\* and the input object as the parser leaves it
SchemaParse(schema, input, allErrors, isUnexpectedAllowed) ==
    IF input.kind # "object"
    THEN [errors |-> <<RootTypeError>>, output |-> NoValue, input |-> input]
    ELSE LET errs == ParseKeys(schema, input, allErrors, isUnexpectedAllowed, 1, <<>>)
         IN [errors |-> errs,
             output |-> IF errs = <<>> THEN ParseOutput(schema, input) ELSE NoValue,
             input |-> input]

\* formatErrors(errors): a tree drawn as text, a heading and one branch per error
FormatErrors(errors) ==
    <<<<"error(s) found", "", "">>>> \o
    [i \in 1..Len(errors) |->
        <<IF i = Len(errors) THEN "+-" ELSE "|-", errors[i][2], errors[i][3]>>]

----------------------------------------------------------------------------
(* utils/decode.ts *)

NoError == [class |-> "none", tag |-> "none", payload |-> "none", lines |-> <<>>]

\* new DecodeError(message): _tag "DecodeError" and the message string
DecodeError(message) ==
    [class |-> "DecodeError", tag |-> "DecodeError", payload |-> "string", lines |-> message]

\* the validator's own error values
ParseErrors(errors) ==
    [class |-> "ParseErrors", tag |-> "none", payload |-> "array", lines |-> errors]
ZodError(issues) ==
    [class |-> "ZodError", tag |-> "none", payload |-> "array", lines |-> issues]

\* What a call of a decode wrapper does: the outcome ("right" or "left" of an
\* Either, "raised" for an exception), the input object afterwards
Right(value, heap) == [outcome |-> "right", value |-> value, error |-> NoError, heap |-> heap]
Left(error, heap) == [outcome |-> "left", value |-> NoValue, error |-> error, heap |-> heap]
Raised(error, heap) == [outcome |-> "raised", value |-> NoValue, error |-> error, heap |-> heap]

\* faulty variant of DecodeEitherFn: isUnexpectedAllowed is false
DecodeEitherStrict(schema, input) ==
    LET p == SchemaParse(schema, input, TRUE, FALSE)
    IN IF p.errors = <<>>
       THEN Right(p.output, p.input)
       ELSE Left(DecodeError(FormatErrors(p.errors)), p.input)

\* faulty variant of DecodeEitherFn: allErrors is false
DecodeEitherFirstError(schema, input) ==
    LET p == SchemaParse(schema, input, FALSE, TRUE)
    IN IF p.errors = <<>>
       THEN Right(p.output, p.input)
       ELSE Left(DecodeError(FormatErrors(p.errors)), p.input)

\* faulty variant of DecodeEitherFn: Either.mapLeft is left out
DecodeEitherRaw(schema, input) ==
    LET p == SchemaParse(schema, input, TRUE, TRUE)
    IN IF p.errors = <<>>
       THEN Right(p.output, p.input)
       ELSE Left(ParseErrors(p.errors), p.input)

\* faulty variant of DecodeEitherFn: the throwing Schema.decode is used
DecodeEitherThrows(schema, input) ==
    LET p == SchemaParse(schema, input, TRUE, TRUE)
    IN IF p.errors = <<>>
       THEN Right(p.output, p.input)
       ELSE Raised(DecodeError(FormatErrors(p.errors)), p.input)

\* faulty variant of DecodeEitherFn: the undeclared properties are deleted from
\* the input object, which is returned as the output
DecodeEitherInPlace(schema, input) ==
    LET p == SchemaParse(schema, input, TRUE, TRUE)
    IN IF p.errors = <<>>
       THEN Right(p.output, p.output)
       ELSE Left(DecodeError(FormatErrors(p.errors)), p.input)

\* decodeEither(schema)(input) of utils/decode.ts:
\*   pipe(Schema.decodeEither(schema)(input, {allErrors: true, isUnexpectedAllowed: true}),
\*        Either.mapLeft(_ => new DecodeError(formatErrors(_))))
DecodeEitherFn(schema, input) ==
    LET p == SchemaParse(schema, input, TRUE, TRUE)
    IN IF p.errors = <<>>
       THEN Right(p.output, p.input)
       ELSE Left(DecodeError(FormatErrors(p.errors)), p.input)

\* parseEither(schema)(input) of utils/decode.ts: the same over Schema.parseEither,
\* whose error holds the list as parseError.errors
ParseEitherFn(schema, input) ==
    LET p == SchemaParse(schema, input, TRUE, TRUE)
    IN IF p.errors = <<>>
       THEN Right(p.output, p.input)
       ELSE Left(DecodeError(FormatErrors(p.errors)), p.input)

\* the earlier decode(schema)(input) over zod: safeParse, then E.right(result.data)
\* or E.left(result.error), the ZodError itself
ZodDecodeFn(schema, input) ==
    LET p == SchemaParse(schema, input, TRUE, TRUE)
    IN IF p.errors = <<>>
       THEN Right(p.output, p.input)
       ELSE Left(ZodError(p.errors), p.input)

\* one call of a decode wrapper on the input, its result recorded
RecordDecode(variant, res) ==
    /\ Len(dResults) < MaxDecodes
    /\ dResults' = Append(dResults,
            [variant |-> variant, outcome |-> res.outcome, value |-> res.value, error |-> res.error])
    /\ dInput' = res.heap
    /\ thrown' = (thrown \/ res.outcome = "raised")
    /\ UNCHANGED <<dSchema, effVars, exVars>>

DecodeEither == RecordDecode("decodeEither", DecodeEitherFn(dSchema, dInput))

ParseEither == RecordDecode("parseEither", ParseEitherFn(dSchema, dInput))

ZodDecode == RecordDecode("zodDecode", ZodDecodeFn(dSchema, dInput))

\* decodeAbsolve(schema)(input), executed:
\*   Effect.absolve(Effect.sync(() => decodeEither(schema)(input)))
\* succeeds with the Right value or fails with the Left value; an exception
\* inside Effect.sync is a defect of the Effect, not an exception of the caller
DecodeAbsolve ==
    LET res == DecodeEitherFn(dSchema, dInput)
    IN /\ Len(dResults) < MaxDecodes
       /\ dResults' = Append(dResults,
            [variant |-> "decodeAbsolve",
             outcome |-> CASE res.outcome = "right" -> "success"
                           [] res.outcome = "left" -> "failure"
                           [] OTHER -> "die",
             value |-> res.value, error |-> res.error])
       /\ dInput' = res.heap
       /\ UNCHANGED <<dSchema, thrown, effVars, exVars>>

----------------------------------------------------------------------------
(* 003-errors.ts: tagged errors and Equal.equals *)

\* the tagged error kinds the repository defines
ErrorKinds == {"FooError", "FooErrorClass", "BarError", "BazError", "DecodeError"}

\* the _tag each kind carries (FooErrorClass extends Data.TaggedClass("FooError"))
TagOf(kind) == IF kind = "FooErrorClass" THEN "FooError" ELSE kind

\* the kinds built through Data (Data.tagged, Data.TaggedClass), which implement
\* Equal; the plain classes do not
ImplementsEqual(kind) == kind \in {"FooError", "FooErrorClass"}

\* the payloads of the examples
Payloads == {"foo1", "foo2"}

NoComparison == [a |-> 0, b |-> 0, result |-> FALSE]

\* FooError({error}), new FooErrorClass({error}), new BarError(error), ...:
\* a new object, whose reference is its index in objs
NewError(kind, payload) ==
    /\ Len(objs) < MaxObjects
    /\ objs' = Append(objs, [kind |-> kind, tag |-> TagOf(kind), error |-> payload])
    /\ UNCHANGED <<lastEq, utilVars, scopeVars, layerVars, fiberVars>>

\* faulty variant of EqualsResults: no Equal implementation is consulted,
\* every value is compared by reference
EqualsByReference(a, b) == {a = b}

\* The results Equal.equals(objs[a], objs[b]) can have: true for one and the
\* same object; for two objects that both implement Equal, whether their
\* fields (_tag, error) are equal; false otherwise. Whether a Data.tagged
\* value and a Data.TaggedClass instance with equal fields are equal differs
\* between the versions of the library the chapters were written for.
EqualsResults(a, b) ==
    IF a = b THEN {TRUE}
    ELSE IF ImplementsEqual(objs[a].kind) /\ ImplementsEqual(objs[b].kind)
         THEN IF objs[a].tag = objs[b].tag /\ objs[a].error = objs[b].error
              THEN IF objs[a].kind = objs[b].kind THEN {TRUE} ELSE {TRUE, FALSE}
              ELSE {FALSE}
         ELSE {FALSE}

\* Equal.equals(objs[a], objs[b])
Compare(a, b) ==
    /\ a \in 1..Len(objs)
    /\ b \in 1..Len(objs)
    /\ \E res \in EqualsResults(a, b) : lastEq' = [a |-> a, b |-> b, result |-> res]
    /\ UNCHANGED <<objs, utilVars, scopeVars, layerVars, fiberVars>>

ErrorsIdle == objs = <<>> /\ lastEq = NoComparison

----------------------------------------------------------------------------
(* 005-scope.ts: Scope, acquireRelease, acquireUseRelease, scoped *)

\* the descriptors fs.open may return
Fds == 3..MaxFd

NoFd == [fd |-> 0, state |-> "none"]
NoScope == [state |-> "none", finalizers |-> <<>>]
NewFiber == [pc |-> 1, interrupt |-> FALSE, cause |-> "none", exit |-> "running"]

ScopePrograms == {"naive", "smarter", "scoped"}

\* faulty variant of ScopeProgram: every program is written as the naive one,
\* a sequence of steps without acquireUseRelease or scoped
ScopeProgramUnensured(prog) ==
    [steps |-> <<"makeScope", "acquire", "use", "closeScope">>, ensured |-> FALSE]

\* faulty variant of ScopeProgram: pipe(resource, Effect.scoped, Effect.tap(use)),
\* the scope is closed before the use step
ScopeProgramScopedEarly(prog) ==
    [steps |-> IF prog = "scoped"
               THEN <<"makeScope", "acquire", "closeScope", "use">>
               ELSE <<"makeScope", "acquire", "use", "closeScope">>,
     ensured |-> prog \in {"smarter", "scoped"}]

\* The steps of a program and whether the closing of its Scope is ensured:
\*   naive    Scope.make(); resource provided with the scope; log; Scope.close
\*   smarter  Effect.acquireUseRelease(Scope.make(), scope => resource, log; scope => Scope.close)
\*   scoped   pipe(resource, tap(log), Effect.scoped), which is the same acquireUseRelease
ScopeProgram(prog) ==
    [steps |-> <<"makeScope", "acquire", "use", "closeScope">>,
     ensured |-> prog \in {"smarter", "scoped"}]

\* Whether a pending interrupt takes effect before step op: acquireRelease
\* runs acquire and the registration of release uninterruptibly, and
\* acquireUseRelease runs its acquire (Scope.make) and release (Scope.close)
\* uninterruptibly; a fiber that has not started yet can always be interrupted.
Interruptible(program, pc) ==
    \/ pc = 1
    \/ program.steps[pc] = "use"
    \/ (~ program.ensured /\ program.steps[pc] \in {"makeScope", "closeScope"})

\* faulty variant of AddFinalizer: the release is added to the scope before
\* the acquire step runs, so it is there whether or not the step succeeds
AddFinalizerFirst(finalizers, acquired, fd) == Append(finalizers, fd)

\* acquireRelease adds the release to the scope with the value acquired, once
\* the acquire step has succeeded; a step that did not succeed adds nothing
AddFinalizer(finalizers, acquired, fd) ==
    IF acquired THEN Append(finalizers, fd) ELSE finalizers

\* Scope.close(scope, exit): the finalizers run, here the release of the
\* resource: fs.close(fd) and the line "FileDescriptor released"
CloseScope ==
    /\ sScope' = [state |-> "closed", finalizers |-> <<>>]
    /\ IF sScope.state = "open" /\ sScope.finalizers # <<>>
       THEN /\ sFd' = [sFd EXCEPT !.state = "closed"]
            /\ sLog' = Append(sLog, <<"released", sFd.fd, sFd.state>>)
       ELSE UNCHANGED <<sFd, sLog>>

\* the step a failure (a defect or an interruption) leads to: the handling of
\* the failure when the closing of the scope is ensured, the end of the fiber otherwise
Failing(program, cause) ==
    IF program.ensured /\ sScope.state = "open"
    THEN [sFiber EXCEPT !.cause = cause]
    ELSE [sFiber EXCEPT !.exit = cause]

\* the fiber runs its next step
ScopeStep ==
    /\ sFiber.exit = "running"
    /\ sFiber.cause = "none"
    /\ LET program == ScopeProgram(sProg)
           pc == sFiber.pc
       IN IF pc > Len(program.steps)
          THEN /\ sFiber' = [sFiber EXCEPT !.exit = "success"]
               /\ UNCHANGED <<sScope, sFd, sLog>>
          ELSE IF sFiber.interrupt /\ Interruptible(program, pc)
          THEN /\ sFiber' = Failing(program, "interrupted")
               /\ UNCHANGED <<sScope, sFd, sLog>>
          ELSE CASE program.steps[pc] = "makeScope" ->
                    /\ sScope' = [state |-> "open", finalizers |-> <<>>]
                    /\ sFiber' = [sFiber EXCEPT !.pc = pc + 1]
                    /\ UNCHANGED <<sFd, sLog>>
               [] program.steps[pc] = "acquire" ->
                    \* fs.open resolves with a descriptor, which is logged and whose
                    \* release is added to the scope, or rejects (a defect of Effect.promise)
                    \/ \E fd \in Fds :
                        /\ sFd' = [fd |-> fd, state |-> "open"]
                        /\ sLog' = Append(sLog, <<"acquired", fd, "open">>)
                        /\ sScope' = [sScope EXCEPT !.finalizers = AddFinalizer(@, TRUE, fd)]
                        /\ sFiber' = [sFiber EXCEPT !.pc = pc + 1]
                    \/ /\ sFiber' = Failing(program, "die")
                       /\ sScope' = [sScope EXCEPT !.finalizers = AddFinalizer(@, FALSE, NoFd.fd)]
                       /\ UNCHANGED <<sFd, sLog>>
               [] program.steps[pc] = "use" ->
                    \* the use step logs the descriptor it was given, or ends in a defect
                    \/ /\ sLog' = Append(sLog, <<"used", sFd.fd, sFd.state>>)
                       /\ sFiber' = [sFiber EXCEPT !.pc = pc + 1]
                       /\ UNCHANGED <<sScope, sFd>>
                    \/ /\ sFiber' = Failing(program, "die")
                       /\ UNCHANGED <<sScope, sFd, sLog>>
               [] OTHER ->
                    /\ CloseScope
                    /\ sFiber' = [sFiber EXCEPT !.pc = pc + 1]
    /\ UNCHANGED <<sProg, utilVars, errVars, layerVars, fiberVars>>

\* the release of acquireUseRelease after its use ended in a failure:
\* Scope.close(scope), then the fiber ends with the failure
ScopeCleanup ==
    /\ sFiber.exit = "running"
    /\ sFiber.cause # "none"
    /\ CloseScope
    /\ sFiber' = [sFiber EXCEPT !.exit = sFiber.cause]
    /\ UNCHANGED <<sProg, utilVars, errVars, layerVars, fiberVars>>

\* the fiber is interrupted from outside while it runs
ScopeInterrupt ==
    /\ sFiber.exit = "running"
    /\ ~ sFiber.interrupt
    /\ sFiber' = [sFiber EXCEPT !.interrupt = TRUE]
    /\ UNCHANGED <<sProg, sScope, sFd, sLog, utilVars, errVars, layerVars, fiberVars>>

ScopeIdle ==
    /\ sProg = "none"
    /\ sFiber = NewFiber
    /\ sScope = NoScope
    /\ sFd = NoFd
    /\ sLog = <<>>

----------------------------------------------------------------------------
(* 005-layer.ts: a Runtime built from a Layer with a scoped resource *)

FooValue == 4
BarValue == 2

NoContext == [foo |-> 0, bar |-> 0, fd |-> 0]
Line(line, ctx) == [line |-> line, foo |-> ctx.foo, bar |-> ctx.bar, fd |-> ctx.fd]

\* the programs the main script runs through the runtime, in this order
LayerPrograms == <<"program1", "program2", "program2">>

\* what a program reads of its context: program1 the service Foo, program2
\* the services FileDescriptor and Bar
ServicesOf(prog, ctx) ==
    IF prog = "program1"
    THEN [NoContext EXCEPT !.foo = ctx.foo]
    ELSE [NoContext EXCEPT !.bar = ctx.bar, !.fd = ctx.fd]

\* faulty variant of ProvideRuntime: every run is provided with the layer
\* itself, which is built again and acquires a descriptor of its own
ProvideLayer(ctx, log) ==
    LET fresh == [ctx EXCEPT !.fd = ctx.fd + Len(log)]
    IN [ctx |-> fresh, log |-> Append(log, Line("acquired", [NoContext EXCEPT !.fd = fresh.fd]))]

\* Runtime.runPromise(runtime)(program): the program runs in the context of
\* the runtime, nothing is built or logged for the run
ProvideRuntime(ctx, log) == [ctx |-> ctx, log |-> log]

\* faulty variant of EventLoopEmpty: the close effect is run at the end of
\* the callback, not on beforeExit
EventLoopAnyTime == TRUE

\* Node emits beforeExit when the event loop has no work left: no fiber of
\* the runtime is still running
EventLoopEmpty == \A i \in 1..Len(lRuns) : lRuns[i].pc = "done"

\* the scopes closed with scope k: itself and the scopes forked from it
ClosedWith(k) == {k} \cup {c \in 1..Len(lScopes) : lScopes[c].parent = k}

\* makeAppRuntime(appLayerLive): Scope.make(), then buildWithScope, where
\* Layer.scoped forks the scope and runs the resource in the child (fs.open,
\* the line "FileDescriptor acquired", the release added to the child), then
\* the runtime with the context built; fs.open rejecting is a defect
MakeAppRuntime ==
    /\ lMain = "start"
    /\ \/ \E fd \in Fds :
            /\ lScopes' = <<[state |-> "open", parent |-> 0, finalizers |-> <<>>],
                            [state |-> "open", parent |-> 1, finalizers |-> <<fd>>]>>
            /\ lFd' = [fd |-> fd, state |-> "open"]
            /\ lRuntime' = [foo |-> FooValue, bar |-> BarValue, fd |-> fd]
            /\ lLog' = Append(lLog, Line("acquired", [NoContext EXCEPT !.fd = fd]))
            /\ lMain' = "built"
       \/ /\ lScopes' = <<[state |-> "open", parent |-> 0, finalizers |-> <<>>],
                          [state |-> "open", parent |-> 1, finalizers |-> <<>>]>>
          /\ lMain' = "failed"
          /\ UNCHANGED <<lFd, lRuntime, lLog>>
    /\ UNCHANGED <<lRuns, utilVars, errVars, scopeVars, fiberVars>>

\* the callback of promise.then: the close effect is registered on
\* beforeExit and the three programs are started
RunPrograms ==
    /\ lMain = "built"
    /\ lMain' = "running"
    /\ lRuns' = [i \in 1..Len(LayerPrograms) |->
                    [prog |-> LayerPrograms[i], pc |-> "started",
                     ctx |-> NoContext, seen |-> NoContext, open |-> FALSE]]
    /\ UNCHANGED <<lScopes, lFd, lRuntime, lLog, utilVars, errVars, scopeVars, fiberVars>>

\* a program run takes its next step: it gets its context, reads its
\* services, logs its line
ProgramStep(i) ==
    /\ lMain \in {"running", "closed"}
    /\ i \in 1..Len(lRuns)
    /\ LET run == lRuns[i]
       IN CASE run.pc = "started" ->
                 LET provided == ProvideRuntime(lRuntime, lLog)
                 IN /\ lRuns' = [lRuns EXCEPT ![i].pc = "provided", ![i].ctx = provided.ctx]
                    /\ lLog' = provided.log
            [] run.pc = "provided" ->
                 /\ lRuns' = [lRuns EXCEPT ![i].pc = "read",
                                           ![i].seen = ServicesOf(run.prog, run.ctx),
                                           ![i].open = (lFd.state = "open")]
                 /\ UNCHANGED lLog
            [] run.pc = "read" ->
                 /\ lRuns' = [lRuns EXCEPT ![i].pc = "done"]
                 /\ lLog' = Append(lLog, Line(run.prog, run.seen))
            [] OTHER -> FALSE
    /\ UNCHANGED <<lMain, lScopes, lFd, lRuntime, utilVars, errVars, scopeVars, fiberVars>>

\* beforeExit: Effect.runPromise(close), that is Scope.close(scope, Exit.unit)
\* of the scope given to buildWithScope. Its children are closed with it and
\* their finalizers run: fs.close(fd) and the line "FileDescriptor released".
\* fs.close is work for the event loop, so beforeExit is emitted once more;
\* closing a closed scope does nothing and the process exits.
BeforeExit ==
    /\ lMain \in {"running", "closed"}
    /\ EventLoopEmpty
    /\ IF lScopes[1].state = "open"
       THEN /\ lScopes' = [k \in 1..Len(lScopes) |->
                             IF k \in ClosedWith(1)
                             THEN [lScopes[k] EXCEPT !.state = "closed", !.finalizers = <<>>]
                             ELSE lScopes[k]]
            /\ lFd' = [lFd EXCEPT !.state = "closed"]
            /\ lLog' = Append(lLog, Line("released", [NoContext EXCEPT !.fd = lFd.fd]))
            /\ lMain' = "closed"
       ELSE /\ lMain' = "exited"
            /\ UNCHANGED <<lScopes, lFd, lLog>>
    /\ UNCHANGED <<lRuntime, lRuns, utilVars, errVars, scopeVars, fiberVars>>

LayerIdle ==
    /\ lMain = "start"
    /\ lScopes = <<>>
    /\ lFd = NoFd
    /\ lRuntime = NoContext
    /\ lRuns = <<>>
    /\ lLog = <<>>

----------------------------------------------------------------------------
(* 006-fiber.ts: fork, join, await, collectAllPar, raceAll *)

FiberExamples == {"example1", "example2", "example3", "example4", "example6"}

\* the default delay of sleeper and the delay of longFailing, in milliseconds
SleeperMs == 1000
LongFailingMs == 1000

\* WIP-fiber-lifetime.ts: the tick of the slow and infinite tasks, in
\* milliseconds, and the number of times repeatN repeats the slow task
TICK == 50
SlowRepeats == 4

\* the examples of WIP-fiber-lifetime.ts that can be run by removing the
\* comment of their runPromise line; the file itself runs example0
LifetimeExamples == {"lifetime_example1", "lifetime_example2", "lifetime_example3"}

Op(op, msg, id, ms) == [op |-> op, msg |-> msg, id |-> id, ms |-> ms]

\* const effects = [sleeper(1, 300), sleeper(2, 100), sleeper(3, 200)]
Effects == <<Op("fork", "sleeper", 1, 300), Op("fork", "sleeper", 2, 100), Op("fork", "sleeper", 3, 200)>>

\* faulty variant of MainProgram: example1 joins the fiber before it logs "after"
MainProgramJoinFirst(example) ==
    <<Op("log", "before", 0, 0), Op("fork", "sleeper", 1, SleeperMs), Op("join", "", 0, 0),
      Op("log", "after", 0, 0), Op("logLocal", "json", 0, 0)>>

\* the steps of the examples
MainProgram(example) ==
    CASE example = "example1" ->
           <<Op("log", "before", 0, 0), Op("fork", "sleeper", 1, SleeperMs),
             Op("log", "after", 0, 0), Op("join", "", 0, 0), Op("logLocal", "json", 0, 0)>>
      [] example = "example2" ->
           <<Op("fork", "longFailing", 1, LongFailingMs), Op("join", "", 0, 0)>>
      [] example = "example3" ->
           <<Op("fork", "longFailing", 1, LongFailingMs), Op("await", "", 0, 0),
             Op("logLocal", "json", 0, 0)>>
      [] example = "example4" ->
           <<Op("forkAll", "", 0, 0), Op("collect", "", 0, 0), Op("print", "", 0, 0)>>
      [] example = "lifetime_example0" ->
           <<Op("fork", "infinite", 0, 0)>>
      [] example = "lifetime_example1" ->
           <<Op("forkDaemon", "slow", 0, 0), Op("sleep", "", 0, TICK * 2 + TICK \div 2),
             Op("log", "done", 0, 0)>>
      [] example = "lifetime_example2" ->
           <<Op("forkDaemon", "slow", 0, 0), Op("sleep", "", 0, TICK * 2 + TICK \div 2),
             Op("log", "done", 0, 0), Op("interrupt", "", 0, 0), Op("await", "", 0, 0)>>
      [] example = "lifetime_example3" ->
           <<Op("fork", "failing", 0, 0), Op("sleep", "", 0, TICK * 7 + TICK \div 2),
             Op("log", "done", 0, 0), Op("join", "", 0, 0)>>
      [] OTHER ->
           <<Op("forkRace", "", 0, 0), Op("race", "", 0, 0), Op("print", "", 0, 0)>>

\* the steps of a fiber: the example for the main fiber, sleeper, longFailing or never
ProgramOf(fiber) ==
    CASE fiber.code = "main" -> MainProgram(fExample)
      [] fiber.code = "main0" -> MainProgram("lifetime_example0")
      [] fiber.code = "sleeper" ->
           <<Op("sleep", "", 0, fiber.ms), Op("log", "waked from", fiber.id, 0),
             Op("succeed", "", fiber.id, 0)>>
      [] fiber.code = "longFailing" ->
           <<Op("sleep", "", 0, fiber.ms), Op("fail", "blah", 0, 0),
             Op("log", "waked from", fiber.id, 0), Op("succeed", "", fiber.id, 0)>>
      [] fiber.code = "slow" ->
           <<Op("sleep", "", 0, TICK), Op("log", "slow task running", 0, 0),
             Op("repeat", "", SlowRepeats, 0)>>
      [] fiber.code = "infinite" ->
           <<Op("sleep", "", 0, TICK), Op("log", "infinite task running", 0, 0),
             Op("forever", "", 0, 0)>>
      [] fiber.code = "failing" -> <<Op("fail", "boom", 0, 0)>>
      [] OTHER -> <<Op("never", "", 0, 0)>>

NoExit == [tag |-> "none", value |-> <<>>, error |-> ""]
Success(value) == [tag |-> "success", value |-> value, error |-> ""]
Failure(error) == [tag |-> "failure", value |-> <<>>, error |-> error]
Defect(error) == [tag |-> "die", value |-> <<>>, error |-> error]
Interrupted == [tag |-> "interrupted", value |-> <<>>, error |-> ""]

Fiber(code, id, ms, parent) ==
    [code |-> code, id |-> id, ms |-> ms, parent |-> parent, pc |-> 1, status |-> "runnable",
     wake |-> 0, interrupt |-> FALSE, exit |-> NoExit, local |-> NoExit,
     daemon |-> FALSE, count |-> 0]

FiberOf(op, parent) == Fiber(op.msg, op.id, op.ms, parent)

\* the fibers an example makes at most: the main one, never and one for each of the effects
FiberIds == 1..(Len(Effects) + 2)

Children(f) == {c \in 1..Len(fFibers) : fFibers[c].parent = f}
Ended(c) == fFibers[c].status = "done"

RECURSIVE Sorted(_)
\* the members of a set of numbers in increasing order
Sorted(set) ==
    IF set = {} THEN <<>>
    ELSE LET least == CHOOSE x \in set : \A y \in set : x <= y
         IN <<least>> \o Sorted(set \ {least})

\* faulty variant of JoinExit: the failure of the fiber becomes a defect of the parent
JoinExitDie(exit) == IF exit.tag = "failure" THEN Defect(exit.error) ELSE exit

\* Fiber.join: the exit of the fiber is the exit of the join
JoinExit(exit) == exit

\* faulty variant of CollectResults: the results in the order the fibers ended
CollectInCompletionOrder(f) ==
    LET ended == SelectSeq(fDone, LAMBDA c : c \in Children(f))
    IN [i \in 1..Len(ended) |-> fFibers[ended[i]].exit.value[1]]

\* collectAllPar: the results of the effects in the order of the effects
CollectResults(f) ==
    LET forked == Sorted(Children(f))
    IN [i \in 1..Len(forked) |-> fFibers[forked[i]].exit.value[1]]

\* the fiber that won the race: the first child that ended in a success
Winner(f) ==
    LET ended == SelectSeq(fDone, LAMBDA c : c \in Children(f) /\ fFibers[c].exit.tag = "success")
    IN IF ended = <<>> THEN 0 ELSE ended[1]

\* faulty variant of Losers: the race leaves the other fibers running
NoLosers(f) == {}

\* raceAll interrupts the fibers that did not win
Losers(f) == {c \in Children(f) : c # Winner(f) /\ ~ Ended(c)}

\* whether the fiber waits: for its timer, for the fiber it joins or awaits,
\* for the fibers it collects, for a winner of its race, or for ever
Blocked(f) ==
    LET fiber == fFibers[f]
        program == ProgramOf(fiber)
    IN \/ fiber.status # "runnable"
       \/ /\ ~ fiber.interrupt
          /\ fiber.pc <= Len(program)
          /\ LET op == program[fiber.pc].op
             IN \/ op \in {"join", "await", "collect"} /\ \E c \in Children(f) : ~ Ended(c)
                \/ op = "race" /\ Winner(f) = 0
                \/ op = "never"

\* faulty variant of ForkDaemon: Effect.fork, the fiber stays in the scope of its parent
ForkAttached(child) == child

\* Effect.forkDaemon: the fiber is forked in the global scope, not in the scope of its parent
ForkDaemon(child) == [child EXCEPT !.daemon = TRUE]

\* a fiber that has not ended is told to stop, which takes a sleeping one off its timer
InterruptFiber(child) ==
    IF child.status = "done"
    THEN child
    ELSE [child EXCEPT !.interrupt = TRUE, !.status = "runnable"]

\* faulty variant of FiberInterrupt: the interruption does not reach the fiber
FiberInterruptIgnored(child) == child

\* Fiber.interrupt(fiber) interrupts the fiber it is given
FiberInterrupt(child) == InterruptFiber(child)

\* the line the onInterrupt of an effect logs
InterruptMessage(fiber) ==
    CASE fiber.code = "slow" -> "slow task interrupted"
      [] fiber.code = "infinite" -> "infinite task interrupted"
      [] OTHER -> ""

\* whether the fiber has begun to run its effect
Started(fiber) == fiber.pc > 1 \/ fiber.count > 0

\* the fiber ends with an exit; the fibers it forked in its scope that still
\* run are interrupted
End(f, exit) ==
    /\ fFibers' = [c \in 1..Len(fFibers) |->
                      IF c = f
                      THEN [fFibers[c] EXCEPT !.status = "done", !.exit = exit]
                      ELSE IF c \in Children(f) /\ ~ fFibers[c].daemon
                      THEN InterruptFiber(fFibers[c])
                      ELSE fFibers[c]]
    /\ fDone' = Append(fDone, f)

Advance(fibers, f) == [fibers EXCEPT ![f].pc = @ + 1]

\* a fiber that does not wait takes its next step
FiberStep(f) ==
    /\ f \in 1..Len(fFibers)
    /\ ~ Blocked(f)
    /\ LET fiber == fFibers[f]
           program == ProgramOf(fiber)
           op == program[fiber.pc]
       IN IF fiber.interrupt
          THEN /\ End(f, Interrupted)
               /\ fLog' = IF Started(fiber) /\ InterruptMessage(fiber) # ""
                          THEN Append(fLog, [fiber |-> f, at |-> fNow, error |-> "", value |-> <<>>,
                                             msg |-> InterruptMessage(fiber)])
                          ELSE fLog
               /\ UNCHANGED fOut
          ELSE IF fiber.pc > Len(program)
          THEN End(f, Success(<<>>)) /\ UNCHANGED <<fLog, fOut>>
          ELSE CASE op.op = "log" ->
                    /\ fLog' = Append(fLog, [fiber |-> f, at |-> fNow, msg |-> op.msg, error |-> "",
                                             value |-> IF op.id = 0 THEN <<>> ELSE <<op.id>>])
                    /\ fFibers' = Advance(fFibers, f)
                    /\ UNCHANGED <<fDone, fOut>>
               [] op.op = "logLocal" ->
                    /\ fLog' = Append(fLog, [fiber |-> f, at |-> fNow, msg |-> op.msg,
                                             error |-> fiber.local.error,
                                             value |-> fiber.local.value])
                    /\ fFibers' = Advance(fFibers, f)
                    /\ UNCHANGED <<fDone, fOut>>
               [] op.op = "print" ->
                    /\ fOut' = Append(fOut, fiber.local.value)
                    /\ fFibers' = Advance(fFibers, f)
                    /\ UNCHANGED <<fDone, fLog>>
               [] op.op = "sleep" ->
                    /\ fFibers' = Advance([fFibers EXCEPT ![f].status = "sleeping",
                                                          ![f].wake = fNow + op.ms], f)
                    /\ UNCHANGED <<fDone, fLog, fOut>>
               [] op.op = "fork" ->
                    /\ fFibers' = Append(Advance(fFibers, f), FiberOf(op, f))
                    /\ UNCHANGED <<fDone, fLog, fOut>>
               [] op.op = "forkDaemon" ->
                    /\ fFibers' = Append(Advance(fFibers, f), ForkDaemon(FiberOf(op, f)))
                    /\ UNCHANGED <<fDone, fLog, fOut>>
               [] op.op = "repeat" ->
                    \* repeatN(n): the effect runs again until it has been repeated n times
                    /\ fFibers' = IF fiber.count < op.id
                                  THEN [fFibers EXCEPT ![f].pc = 1, ![f].count = @ + 1]
                                  ELSE Advance(fFibers, f)
                    /\ UNCHANGED <<fDone, fLog, fOut>>
               [] op.op = "forever" ->
                    /\ fFibers' = [fFibers EXCEPT ![f].pc = 1, ![f].count = 1]
                    /\ UNCHANGED <<fDone, fLog, fOut>>
               [] op.op = "interrupt" ->
                    \* Fiber.interrupt: the fiber is interrupted, then awaited
                    /\ fFibers' = Advance([c \in 1..Len(fFibers) |->
                                              IF c \in Children(f)
                                              THEN FiberInterrupt(fFibers[c])
                                              ELSE fFibers[c]], f)
                    /\ UNCHANGED <<fDone, fLog, fOut>>
               [] op.op = "forkAll" ->
                    /\ fFibers' = Advance(fFibers, f) \o
                                  [i \in 1..Len(Effects) |-> FiberOf(Effects[i], f)]
                    /\ UNCHANGED <<fDone, fLog, fOut>>
               [] op.op = "forkRace" ->
                    /\ fFibers' = Append(Advance(fFibers, f), Fiber("never", 0, 0, f)) \o
                                  [i \in 1..Len(Effects) |-> FiberOf(Effects[i], f)]
                    /\ UNCHANGED <<fDone, fLog, fOut>>
               [] op.op = "join" ->
                    LET exit == JoinExit(fFibers[CHOOSE c \in Children(f) : TRUE].exit)
                    IN /\ IF exit.tag = "success"
                          THEN /\ fFibers' = Advance([fFibers EXCEPT ![f].local = exit], f)
                               /\ UNCHANGED fDone
                          ELSE End(f, exit)
                       /\ UNCHANGED <<fLog, fOut>>
               [] op.op = "await" ->
                    /\ fFibers' = Advance([fFibers EXCEPT ![f].local =
                                              fFibers[CHOOSE c \in Children(f) : TRUE].exit], f)
                    /\ UNCHANGED <<fDone, fLog, fOut>>
               [] op.op = "collect" ->
                    /\ fFibers' = Advance([fFibers EXCEPT ![f].local =
                                              Success(CollectResults(f))], f)
                    /\ UNCHANGED <<fDone, fLog, fOut>>
               [] op.op = "race" ->
                    \* the winner's value is the value of the race; the losers are
                    \* interrupted, which takes a sleeping one off its timer
                    /\ fFibers' = Advance(
                          [c \in 1..Len(fFibers) |->
                              IF c = f THEN [fFibers[c] EXCEPT !.local = fFibers[Winner(f)].exit]
                              ELSE IF c \in Losers(f)
                              THEN [fFibers[c] EXCEPT !.interrupt = TRUE, !.status = "runnable"]
                              ELSE fFibers[c]], f)
                    /\ UNCHANGED <<fDone, fLog, fOut>>
               [] op.op = "fail" ->
                    End(f, Failure(op.msg)) /\ UNCHANGED <<fLog, fOut>>
               [] OTHER ->
                    End(f, Success(<<op.id>>)) /\ UNCHANGED <<fLog, fOut>>
    /\ UNCHANGED <<fExample, fNow, utilVars, errVars, scopeVars, layerVars>>

\* every fiber waits: the event loop runs the timer that is due first
Tick ==
    /\ \A f \in 1..Len(fFibers) : Blocked(f)
    /\ \E f \in 1..Len(fFibers) : fFibers[f].status = "sleeping"
    /\ LET due == {fFibers[f].wake : f \in {g \in 1..Len(fFibers) : fFibers[g].status = "sleeping"}}
           next == CHOOSE t \in due : \A u \in due : t <= u
       IN /\ fNow' = next
          /\ fFibers' = [f \in 1..Len(fFibers) |->
                            IF fFibers[f].status = "sleeping" /\ fFibers[f].wake = next
                            THEN [fFibers[f] EXCEPT !.status = "runnable"]
                            ELSE fFibers[f]]
    /\ UNCHANGED <<fExample, fDone, fLog, fOut, utilVars, errVars, scopeVars, layerVars>>

FiberIdle ==
    /\ fExample = "none"
    /\ fFibers = <<>>
    /\ fNow = 0
    /\ fDone = <<>>
    /\ fLog = <<>>
    /\ fOut = <<>>

----------------------------------------------------------------------------
(* Specifications *)

EffectifyIdle ==
    /\ adapted = "none"
    /\ effects = <<>>
    /\ runs = <<>>
    /\ fnCalls = <<>>
    /\ mapCalls = <<>>

DecodeIdle ==
    /\ dSchema = [k \in Keys |-> "none"]
    /\ dInput = NoValue
    /\ dResults = <<>>

UtilitiesIdle == EffectifyIdle /\ DecodeIdle /\ thrown = FALSE

ExamplesIdle == ErrorsIdle /\ ScopeIdle /\ LayerIdle /\ FiberIdle

InitDecode ==
    /\ adapted = "none"
    /\ effects = <<>>
    /\ runs = <<>>
    /\ fnCalls = <<>>
    /\ mapCalls = <<>>
    /\ thrown = FALSE
    /\ dSchema \in Schemas
    /\ dInput \in Inputs
    /\ dResults = <<>>
    /\ ExamplesIdle

NextDecode ==
    \/ DecodeEither
    \/ ParseEither
    \/ ZodDecode
    \/ DecodeAbsolve

SpecDecode == InitDecode /\ [][NextDecode]_vars

----------------------------------------------------------------------------
(* The callback adapter as a system *)

InitEffectify ==
    /\ adapted = "none"
    /\ effects = <<>>
    /\ runs = <<>>
    /\ fnCalls = <<>>
    /\ mapCalls = <<>>
    /\ thrown = FALSE
    /\ dSchema = [k \in Keys |-> "none"]
    /\ dInput = NoValue
    /\ dResults = <<>>
    /\ ExamplesIdle

NextEffectify ==
    \/ \E which \in {"effectify", "effectifyMapError"} : Effectify(which)
    \/ \E args \in ArgLists : CallAdapted(args)
    \/ \E e \in 1..MaxEffects, b \in FnBehaviours : ExecuteEffect(e, b)
    \/ \E r \in 1..MaxRuns : CallbackLater(r)

SpecEffectify == InitEffectify /\ [][NextEffectify]_vars

\* The two utilities used side by side: calls of the adapted function, their
\* executions and calls of the decode wrappers, interleaved in any order.
UtilSchema == [k \in Keys |-> IF k = "url" THEN "string" ELSE "none"]

UtilInputs ==
    { [kind |-> "object", props |-> [k \in Keys |-> IF k = "files" THEN "absent" ELSE "hello"]],
      [kind |-> "object", props |-> [k \in Keys |-> IF k = "url" THEN "42" ELSE "absent"]] }

UtilBehaviours ==
    {b \in FnBehaviours :
        b.error \in {JsNull, JsVal("object", "Error:ENOENT")} /\ b.mode \in {"sync", "async"}}

InitUtilities ==
    /\ EffectifyIdle
    /\ thrown = FALSE
    /\ dSchema = UtilSchema
    /\ dInput \in UtilInputs
    /\ dResults = <<>>
    /\ ExamplesIdle

NextUtilities ==
    \/ \E which \in {"effectify", "effectifyMapError"} : Effectify(which)
    \/ \E args \in ArgLists : CallAdapted(args)
    \/ \E e \in 1..MaxEffects, b \in UtilBehaviours : ExecuteEffect(e, b)
    \/ \E r \in 1..MaxRuns : CallbackLater(r)
    \/ DecodeEither
    \/ ParseEither

SpecUtilities == InitUtilities /\ [][NextUtilities]_vars

InitErrors ==
    /\ UtilitiesIdle
    /\ ErrorsIdle
    /\ ScopeIdle
    /\ LayerIdle
    /\ FiberIdle

NextErrors ==
    \/ \E kind \in ErrorKinds, payload \in Payloads : NewError(kind, payload)
    \/ \E a \in 1..MaxObjects, b \in 1..MaxObjects : Compare(a, b)

SpecErrors == InitErrors /\ [][NextErrors]_vars

InitScope ==
    /\ UtilitiesIdle
    /\ ErrorsIdle
    /\ sProg \in ScopePrograms
    /\ sFiber = NewFiber
    /\ sScope = NoScope
    /\ sFd = NoFd
    /\ sLog = <<>>
    /\ LayerIdle
    /\ FiberIdle

NextScope ==
    \/ ScopeStep
    \/ ScopeCleanup
    \/ ScopeInterrupt

SpecScope == InitScope /\ [][NextScope]_vars

\* the runtime keeps running a fiber that can take a step
SpecScopeFair == SpecScope /\ WF_vars(ScopeStep) /\ WF_vars(ScopeCleanup)

InitLayer ==
    /\ UtilitiesIdle
    /\ ErrorsIdle
    /\ ScopeIdle
    /\ LayerIdle
    /\ FiberIdle

NextLayer ==
    \/ MakeAppRuntime
    \/ RunPrograms
    \/ \E i \in 1..Len(LayerPrograms) : ProgramStep(i)
    \/ BeforeExit

SpecLayer == InitLayer /\ [][NextLayer]_vars

InitFiber ==
    /\ UtilitiesIdle
    /\ ErrorsIdle
    /\ ScopeIdle
    /\ LayerIdle
    /\ fExample \in FiberExamples
    /\ fFibers = <<Fiber("main", 0, 0, 0)>>
    /\ fNow = 0
    /\ fDone = <<>>
    /\ fLog = <<>>
    /\ fOut = <<>>

NextFiber ==
    \/ \E f \in FiberIds : FiberStep(f)
    \/ Tick

SpecFiber == InitFiber /\ [][NextFiber]_vars

InitLifetime ==
    /\ UtilitiesIdle
    /\ ErrorsIdle
    /\ ScopeIdle
    /\ LayerIdle
    /\ fExample \in LifetimeExamples
    /\ fFibers = <<Fiber("main", 0, 0, 0), Fiber("main0", 0, 0, 0)>>
    /\ fNow = 0
    /\ fDone = <<>>
    /\ fLog = <<>>
    /\ fOut = <<>>

SpecLifetime == InitLifetime /\ [][NextFiber]_vars

----------------------------------------------------------------------------
(* Properties of the callback adapter *)

\* the arguments run r's Effect closed over
ArgsOfRun(r) == effects[runs[r].effect].args

\* the calls of mapError made for run r
MapCallsOfRun(r) == SelectSeq(mapCalls, LAMBDA c : c.run = r)

\* the invocations of fn made for run r
FnCallsOfRun(r) == SelectSeq(fnCalls, LAMBDA c : c.run = r)

\* C1: whenever the wrapped function has invoked callback(null, V), the
\* execution has succeeded with exactly V, and the wrapped function received
\* the leading arguments of the call, in the same order, followed by one callback.
C1_SuccessPath ==
    \A r \in 1..Len(runs) :
        (runs[r].called /\ runs[r].error = JsNull) =>
            /\ runs[r].exit.kind = "success"
            /\ runs[r].exit.value = runs[r].data
            /\ Len(FnCallsOfRun(r)) = 1
            /\ LET got == FnCallsOfRun(r)[1].received
                   args == ArgsOfRun(r)
               IN /\ Len(got) = Len(args) + 1
                  /\ \A i \in 1..Len(args) : got[i] = args[i]
                  /\ got[Len(got)].type = "function"

C1_Witness ==
    \E r \in 1..Len(runs) :
        /\ runs[r].called
        /\ runs[r].mode = "async"
        /\ runs[r].error = JsNull
        /\ runs[r].data = JsVal("object", "Buffer")
        /\ runs[r].exit = Succeed(JsVal("object", "Buffer"))
        /\ Len(ArgsOfRun(r)) = 2

\* C2: whenever the wrapped function has invoked callback(E, undefined) with E
\* neither null nor undefined, the execution has ended in the failure channel
\* carrying E (effectify) or mapError(E) (effectifyMapError), never in success.
C2_FailurePath ==
    \A r \in 1..Len(runs) :
        (runs[r].called /\ ~ IsNullish(runs[r].error) /\ runs[r].data = JsUndefined) =>
            runs[r].exit = IF adapted = "effectifyMapError"
                           THEN Fail(MapError(runs[r].error))
                           ELSE Fail(runs[r].error)

\* C3, as claimed: no exception is ever raised, and every execution that has
\* ended without success carries its error in the failure channel.
C3_NeverThrows ==
    /\ thrown = FALSE
    /\ \A r \in 1..Len(runs) : runs[r].exit.kind \in {"pending", "success", "failure"}

\* C3, amended: no exception is ever raised to the caller; every error the
\* callback reports and the adapter takes as one (a truthy error argument) is
\* carried in the failure channel; an execution ends as a defect only when the
\* wrapped function itself threw before invoking the callback.
C3_NeverThrowsAmended ==
    /\ thrown = FALSE
    /\ \A r \in 1..Len(runs) :
        /\ runs[r].exit.kind \in {"pending", "success", "failure", "die"}
        /\ (runs[r].exit.kind = "die") <=> (runs[r].mode = "throw")
        /\ (runs[r].called /\ ToBoolean(runs[r].error)) => runs[r].exit.kind = "failure"
        /\ runs[r].exit.kind = "failure" => (runs[r].called /\ ToBoolean(runs[r].error))

C3_Witness ==
    /\ \E r \in 1..Len(runs) : runs[r].mode = "throw" /\ runs[r].exit.kind = "die"
    /\ \E r \in 1..Len(runs) :
        /\ runs[r].mode = "async"
        /\ runs[r].called
        /\ runs[r].exit = Fail(JsVal("object", "Error:ENOENT"))

\* C4: calling the adapted function does not invoke the wrapped function; the
\* wrapped function has been invoked exactly once for each execution of a
\* returned Effect and never otherwise, and mapError runs only for an execution
\* whose callback was invoked.
C4_Deferred ==
    /\ Len(fnCalls) = Len(runs)
    /\ \A r \in 1..Len(runs) : Len(FnCallsOfRun(r)) = 1
    /\ \A i \in 1..Len(mapCalls) :
        mapCalls[i].run \in 1..Len(runs) /\ runs[mapCalls[i].run].called

C4_Witness ==
    /\ Len(effects) = 1
    /\ Len(runs) = 2
    /\ runs[1].effect = 1
    /\ runs[2].effect = 1
    /\ Len(fnCalls) = 2

\* C5: with effectifyMapError, an execution that ended in failure made exactly
\* one call of mapError, on the callback's error, and carries its result; an
\* execution that succeeded made no call of mapError and carries the
\* callback's data unchanged; no other execution called mapError.
C5_MapErrorOnce ==
    adapted = "effectifyMapError" =>
        \A r \in 1..Len(runs) :
            /\ runs[r].exit.kind = "failure" =>
                /\ MapCallsOfRun(r) = <<[run |-> r, arg |-> runs[r].error]>>
                /\ runs[r].exit.value = MapError(runs[r].error)
            /\ runs[r].exit.kind = "success" =>
                /\ MapCallsOfRun(r) = <<>>
                /\ runs[r].exit.value = runs[r].data
            /\ runs[r].exit.kind \in {"pending", "die"} => MapCallsOfRun(r) = <<>>

C5_Witness ==
    /\ adapted = "effectifyMapError"
    /\ \E r \in 1..Len(runs) :
        /\ runs[r].exit = Fail(MapError(JsVal("object", "Error:ENOENT")))
        /\ Len(MapCallsOfRun(r)) = 1
    /\ \E r \in 1..Len(runs) :
        /\ runs[r].exit = Succeed(JsVal("object", "Buffer"))
        /\ MapCallsOfRun(r) = <<>>

----------------------------------------------------------------------------
(* Properties of the decode wrappers *)

\* the keys the schema declares
Declared(schema) == {k \in Keys : schema[k] # "none"}

\* the declared keys whose constraint the input violates, each independently
Violations(schema, input) ==
    {k \in Declared(schema) :
        input.props[k] = "absent" \/ TypeOfProp(input.props[k]) # schema[k]}

\* the input satisfies the schema: an object that violates no declared key
Satisfies(schema, input) == input.kind = "object" /\ Violations(schema, input) = {}

\* the undeclared properties the input carries
Unexpected(schema, input) == {k \in Keys \ Declared(schema) : input.props[k] # "absent"}

Succeeded(res) == res.outcome \in {"right", "success"}
Failed(res) == res.outcome \in {"left", "failure"}

\* the lines of an error that name key k
LinesAbout(error, k) == SelectSeq(error.lines, LAMBDA line : line[2] = k)

\* C6, as claimed: for an input that satisfies the schema every wrapper returns
\* the success outcome holding a value with the keys and values of the input,
\* nothing added or removed.
C6_SameShape ==
    \A i \in 1..Len(dResults) :
        Satisfies(dSchema, dInput) => (Succeeded(dResults[i]) /\ dResults[i].value = dInput)

\* C6, amended: for an input that satisfies the schema every wrapper returns
\* the success outcome holding an object with every declared key at the
\* input's value and nothing else: nothing is added, and the properties the
\* schema does not declare are left out (so the value equals the input
\* exactly when the input carries no undeclared property).
C6_DeclaredShape ==
    \A i \in 1..Len(dResults) :
        Satisfies(dSchema, dInput) =>
            /\ Succeeded(dResults[i])
            /\ dResults[i].value.kind = "object"
            /\ \A k \in Declared(dSchema) : dResults[i].value.props[k] = dInput.props[k]
            /\ \A k \in Keys \ Declared(dSchema) : dResults[i].value.props[k] = "absent"
            /\ (dResults[i].value = dInput) <=> (Unexpected(dSchema, dInput) = {})

C6_Witness ==
    /\ Satisfies(dSchema, dInput)
    /\ Cardinality(Declared(dSchema)) = 2
    /\ Unexpected(dSchema, dInput) # {}
    /\ \E i \in 1..Len(dResults) :
        /\ dResults[i].variant = "decodeEither"
        /\ dResults[i].outcome = "right"
        /\ dResults[i].value # dInput

\* C7: for an object that violates N declared keys, the error of every wrapper
\* names each of the N violated keys once, and no other key.
C7_AllViolations ==
    \A i \in 1..Len(dResults) :
        (dInput.kind = "object" /\ Violations(dSchema, dInput) # {}) =>
            /\ Failed(dResults[i])
            /\ \A k \in Violations(dSchema, dInput) : Len(LinesAbout(dResults[i].error, k)) = 1
            /\ \A k \in Keys \ Violations(dSchema, dInput) : Len(LinesAbout(dResults[i].error, k)) = 0

C7_Witness ==
    /\ dInput.kind = "object"
    /\ Cardinality(Violations(dSchema, dInput)) = 3
    /\ \E k \in Keys : dInput.props[k] = "absent"
    /\ \E k \in Keys : dInput.props[k] \notin {"absent", "null"}
    /\ \E i \in 1..Len(dResults) :
        /\ dResults[i].variant = "decodeEither"
        /\ dResults[i].outcome = "left"
        /\ Len(dResults[i].error.lines) = 4

\* C8, as claimed: for an input that does not satisfy the schema every decode
\* wrapper yields one error value tagged "DecodeError" whose payload is a
\* formatted string, never the validator's own error.
C8_TaggedError ==
    \A i \in 1..Len(dResults) :
        ~ Satisfies(dSchema, dInput) =>
            /\ Failed(dResults[i])
            /\ dResults[i].error.tag = "DecodeError"
            /\ dResults[i].error.payload = "string"

\* C8, amended: for an input that does not satisfy the schema the wrappers of
\* utils/decode.ts (decodeEither, parseEither, decodeAbsolve) yield one error
\* value tagged "DecodeError" whose payload is the formatted string; the
\* earlier zod-based decode yields the validator's own ZodError.
C8_TaggedErrorAmended ==
    \A i \in 1..Len(dResults) :
        ~ Satisfies(dSchema, dInput) =>
            /\ Failed(dResults[i])
            /\ dResults[i].variant # "zodDecode" =>
                /\ dResults[i].error.class = "DecodeError"
                /\ dResults[i].error.tag = "DecodeError"
                /\ dResults[i].error.payload = "string"
                /\ Len(dResults[i].error.lines) >= 2
                /\ dResults[i].error.lines[1][1] = "error(s) found"
            /\ dResults[i].variant = "zodDecode" =>
                /\ dResults[i].error.class = "ZodError"
                /\ dResults[i].error.payload = "array"

C8_Witness ==
    /\ ~ Satisfies(dSchema, dInput)
    /\ \E i \in 1..Len(dResults) :
        dResults[i].variant = "decodeEither" /\ dResults[i].error.tag = "DecodeError"
    /\ \E i \in 1..Len(dResults) :
        dResults[i].variant = "zodDecode" /\ dResults[i].error.class = "ZodError"

\* C9: no decode call raises an exception, whatever the schema and the input
\* (null, undefined, a primitive, an object with properties of the wrong
\* type); each call returns either a success holding a value or a failure
\* holding an error, the tagged DecodeError for the wrappers of utils/decode.ts.
C9_Total ==
    /\ thrown = FALSE
    /\ \A i \in 1..Len(dResults) :
        /\ Succeeded(dResults[i]) \/ Failed(dResults[i])
        /\ Succeeded(dResults[i]) => (dResults[i].value # NoValue /\ dResults[i].error = NoError)
        /\ Failed(dResults[i]) => (dResults[i].value = NoValue /\ dResults[i].error # NoError)
        /\ (Failed(dResults[i]) /\ dResults[i].variant # "zodDecode") =>
                dResults[i].error.tag = "DecodeError"

C9_Witness ==
    /\ dInput.kind = "null"
    /\ Len(dResults) = 2
    /\ dResults[1].variant = "decodeEither"
    /\ dResults[1].outcome = "left"
    /\ dResults[2].variant = "decodeAbsolve"
    /\ dResults[2].outcome = "failure"

----------------------------------------------------------------------------
(* Properties of the utilities used together *)

\* C11: whatever calls are interleaved, a step never changes the outcome an
\* execution or a decode call already has, and afterwards any two executions
\* whose wrapped function behaved alike have the same outcome and any two
\* calls of one decode wrapper on the input have the same result.
C11_NoSharedState ==
    [][ /\ \A r \in 1..Len(runs) :
              runs[r].exit.kind # "pending" => runs'[r].exit = runs[r].exit
        /\ \A i \in 1..Len(dResults) : dResults'[i] = dResults[i]
        /\ \A r1, r2 \in 1..Len(runs') :
              ( /\ runs'[r1].mode = runs'[r2].mode
                /\ runs'[r1].error = runs'[r2].error
                /\ runs'[r1].data = runs'[r2].data
                /\ runs'[r1].called = runs'[r2].called )
              => runs'[r1].exit = runs'[r2].exit
        /\ \A i, j \in 1..Len(dResults') :
              dResults'[i].variant = dResults'[j].variant => dResults'[i] = dResults'[j]
      ]_vars

C11_Witness ==
    /\ Len(runs) = 2
    /\ runs[1].mode = "async"
    /\ runs[2].mode = "async"
    /\ runs[1].called
    /\ runs[2].called
    /\ runs[1].exit = Fail(JsVal("object", "Error:ENOENT"))
    /\ runs[2].exit = runs[1].exit
    /\ Len(dResults) = 2
    /\ dResults[1].variant = "decodeEither"
    /\ dResults[2] = dResults[1]
    /\ dResults[1].outcome = "left"

----------------------------------------------------------------------------
(* Properties of the tagged errors *)

\* a comparison has been made
Compared == lastEq # NoComparison

\* C12, as claimed: for every kind of tagged error, two values of the kind
\* compare equal exactly when their payloads are equal.
C12_ByValue ==
    (Compared /\ objs[lastEq.a].kind = objs[lastEq.b].kind) =>
        (lastEq.result <=> (objs[lastEq.a].error = objs[lastEq.b].error))

\* C12, amended: two values of a kind defined through Data (FooError,
\* FooErrorClass) compare equal exactly when their payloads are equal; a value
\* of a plain class (BarError, BazError, DecodeError) compares equal to itself
\* only, whatever the payloads.
C12_ByValueAmended ==
    Compared =>
        /\ (objs[lastEq.a].kind = objs[lastEq.b].kind /\ ImplementsEqual(objs[lastEq.a].kind)) =>
                (lastEq.result <=> (objs[lastEq.a].error = objs[lastEq.b].error))
        /\ (~ ImplementsEqual(objs[lastEq.a].kind) \/ ~ ImplementsEqual(objs[lastEq.b].kind)) =>
                (lastEq.result <=> (lastEq.a = lastEq.b))

C12_Witness ==
    /\ Compared
    /\ lastEq.a # lastEq.b
    /\ objs[lastEq.a].kind = "FooErrorClass"
    /\ objs[lastEq.b].kind = "FooErrorClass"
    /\ objs[lastEq.a].error = objs[lastEq.b].error
    /\ lastEq.result
    /\ \E c \in 1..Len(objs) : objs[c].kind = "DecodeError"

----------------------------------------------------------------------------
(* Properties of the scoped resource *)

Ensured == sProg \in {"smarter", "scoped"}
Acquired == sFd.state = "open"
Released == sFd.state = "closed"
EventsOf(log) == [i \in 1..Len(log) |-> log[i][1]]

\* C13: in useFileDescriptorSmarter and useFileDescriptor, once the acquire
\* step has succeeded the release step eventually runs, whether the use step
\* succeeds, ends in a defect or is interrupted
C13_GuaranteedRelease == (Ensured /\ Acquired) ~> Released

\* an interrupted run of useFileDescriptor that never used the descriptor and released it
C13_Witness ==
    /\ sProg = "scoped"
    /\ sFiber.exit = "interrupted"
    /\ EventsOf(sLog) = <<"acquired", "released">>
    /\ Released

EventRank(event) ==
    CASE event = "acquired" -> 1
      [] event = "used" -> 2
      [] OTHER -> 3

\* C14: the events of a run occur in the order acquired, used, released, all
\* about one descriptor; the use step observes an acquired descriptor that is
\* not released; a run of any of the three programs that succeeds logged
\* exactly acquired, used, released
C14_LifecycleOrder ==
    /\ \A i, j \in 1..Len(sLog) :
          i < j => /\ EventRank(sLog[i][1]) < EventRank(sLog[j][1])
                   /\ sLog[i][2] = sLog[j][2]
    /\ \A i \in 1..Len(sLog) :
          /\ sLog[i][2] \in Fds
          /\ sLog[i][1] = "used" => (i > 1 /\ sLog[i][3] = "open")
          /\ sLog[i][1] = "released" => i > 1
    /\ sFiber.exit = "success" => EventsOf(sLog) = <<"acquired", "used", "released">>
    /\ (sProg = "scoped" /\ sFiber.exit # "running" /\ sLog # <<>>) =>
          sLog[Len(sLog)][1] = "released"

\* a complete run of useFileDescriptor
C14_Witness ==
    /\ sProg = "scoped"
    /\ sFiber.exit = "success"
    /\ Len(sLog) = 3
    /\ sLog[2] = <<"used", sFd.fd, "open">>

----------------------------------------------------------------------------
(* Properties of the layer runtime *)

LinesOf(line) == {i \in 1..Len(lLog) : lLog[i].line = line}
RunsDone == lRuns # <<>> /\ \A i \in 1..Len(lRuns) : lRuns[i].pc = "done"

\* C15: the resource is acquired exactly once, when the layer is built and
\* before any program is run, and every program run through the runtime
\* (program1, program2, program2) has and observes that one descriptor
C15_AcquiredOnce ==
    /\ Cardinality(LinesOf("acquired")) <= 1
    /\ lRuns # <<>> =>
          /\ LinesOf("acquired") = {1}
          /\ lLog[1].fd = lFd.fd
          /\ lFd.fd \in Fds
    /\ \A i \in 1..Len(lRuns) :
          /\ lRuns[i].pc # "started" => lRuns[i].ctx.fd = lFd.fd
          /\ (lRuns[i].pc \in {"read", "done"} /\ lRuns[i].prog = "program2") =>
                lRuns[i].seen.fd = lFd.fd
    /\ \A i \in LinesOf("program2") : lLog[i].fd = lLog[1].fd

\* the three programs have run and both runs of program2 logged the descriptor acquired
C15_Witness ==
    /\ RunsDone
    /\ Cardinality(LinesOf("program1")) = 1
    /\ Cardinality(LinesOf("program2")) = 2
    /\ \A i \in LinesOf("program2") : lLog[i].fd = lFd.fd /\ lFd.fd \in Fds

\* C16: the release runs only with the close effect of makeAppRuntime, which
\* closes the child scope holding the finalizer together with the scope given
\* to buildWithScope, and only after the three program runs have completed;
\* no program reads the descriptor after its release
C16_ReleaseOnClose ==
    /\ (LinesOf("released") # {} \/ lFd.state = "closed") =>
          /\ lMain \in {"closed", "exited"}
          /\ RunsDone
          /\ Len(lRuns) = Len(LayerPrograms)
          /\ LinesOf("released") = {Len(lLog)}
          /\ lLog[Len(lLog)].fd = lFd.fd
    /\ lMain \in {"closed", "exited"} <=> (lScopes # <<>> /\ lScopes[1].state = "closed")
    /\ \A k \in 1..Len(lScopes) : lScopes[k].state = lScopes[1].state
    /\ (lMain \in {"closed", "exited"} /\ lFd.fd \in Fds) => lFd.state = "closed"
    /\ \A i \in 1..Len(lRuns) : lRuns[i].pc \in {"read", "done"} => lRuns[i].open

\* the process has exited after the close effect released the descriptor as the last line
C16_Witness ==
    /\ lMain = "exited"
    /\ RunsDone
    /\ lFd.state = "closed"
    /\ Len(lLog) = 5
    /\ lLog[5].line = "released"

----------------------------------------------------------------------------
(* Properties of the fibers *)

Main == fFibers[1]
Messages == [i \in 1..Len(fLog) |-> <<fLog[i].msg, fLog[i].value>>]
Wakes == SelectSeq(Messages, LAMBDA m : m[1] = "waked from")
IsPrefix(s, t) == Len(s) <= Len(t) /\ \A i \in 1..Len(s) : s[i] = t[i]

C18_JoinFails ==
    fExample \in {"example2", "example3"} =>
        /\ Wakes = <<>>
        /\ \A c \in 2..Len(fFibers) :
              /\ fFibers[c].pc <= 2
              /\ Ended(c) => fFibers[c].exit = Failure("blah")
        /\ (fExample = "example2" /\ Main.status = "done") =>
              /\ Main.exit = Failure("blah")
              /\ Main.exit = fFibers[2].exit
              /\ Main.pc = 2
        /\ (fExample = "example3" /\ Main.status = "done") =>
              /\ Main.exit.tag = "success"
              /\ Main.local = Failure("blah")

\* example2 has ended in the failure of the fiber it joined
C18_Witness ==
    /\ fExample = "example2"
    /\ Main.status = "done"
    /\ Main.exit = Failure("blah")
    /\ fDone = <<2, 1>>

\* C19: in example4 the sleepers wake in the order 2, 3, 1 and the result of
\* collectAllPar lists the identifiers in the order of the effects, 1, 2, 3,
\* however the fibers are interleaved
C19_InputOrder ==
    fExample = "example4" =>
        /\ IsPrefix(Wakes, <<<<"waked from", <<2>>>>, <<"waked from", <<3>>>>, <<"waked from", <<1>>>>>>)
        /\ IsPrefix(SelectSeq(fDone, LAMBDA c : c # 1), <<3, 4, 2>>)
        /\ Main.pc > 2 => Main.local = Success(<<1, 2, 3>>)
        /\ IsPrefix(fOut, <<<<1, 2, 3>>>>)
        /\ Main.status = "done" => (fOut = <<<<1, 2, 3>>>> /\ Len(Wakes) = 3)

\* example4 has printed its result after the three sleepers woke
C19_Witness ==
    /\ fExample = "example4"
    /\ Main.status = "done"
    /\ fOut = <<<<1, 2, 3>>>>
    /\ fDone = <<3, 4, 2, 1>>

\* C20: example6 yields 2, the id of the sleeper with the shortest delay; the
\* other fibers of the race are interrupted by the race, before they log and
\* before example6 goes on, so "waked from 2" is the only wake message ever
\* logged
C20_Race ==
    fExample = "example6" =>
        /\ IsPrefix(Wakes, <<<<"waked from", <<2>>>>>>)
        /\ IsPrefix(fOut, <<<<2>>>>)
        /\ Main.pc > 2 =>
              /\ Main.local = Success(<<2>>)
              /\ \A c \in Children(1) : fFibers[c].id # 2 => fFibers[c].interrupt
        /\ Main.status = "done" => (fOut = <<<<2>>>> /\ Len(Wakes) = 1)
        /\ \A c \in 2..Len(fFibers) :
              Ended(c) => fFibers[c].exit = (IF fFibers[c].id = 2 THEN Success(<<2>>) ELSE Interrupted)

\* example6 has printed 2 and the other fibers of the race have been interrupted
C20_Witness ==
    /\ fExample = "example6"
    /\ fOut = <<<<2>>>>
    /\ Len(fDone) = 5
    /\ \A c \in {2, 3, 5} : fFibers[c].exit = Interrupted
    /\ Len(Wakes) = 1

----------------------------------------------------------------------------
(* Properties of the fiber lifetimes *)

Running == "slow task running"
SlowFibers == Children(1)
SlowLines == SelectSeq([i \in 1..Len(fLog) |-> fLog[i].msg],
                       LAMBDA m : m \in {Running, "done", "slow task interrupted"})
RunningLines == SelectSeq(SlowLines, LAMBDA m : m = Running)

\* C21: in example1 the slow task forked with forkDaemon is not interrupted
\* when the parent has logged "done" and ended; "slow task running" is logged
\* two times before "done" and three times after it, five times when the
\* task has ended
C21_DaemonOutlivesParent ==
    fExample = "lifetime_example1" =>
        /\ IsPrefix(SlowLines, <<Running, Running, "done", Running, Running, Running>>)
        /\ \A c \in SlowFibers :
              /\ ~ fFibers[c].interrupt
              /\ Ended(c) => /\ fFibers[c].exit.tag = "success"
                             /\ Len(RunningLines) = SlowRepeats + 1
                             /\ Ended(1)
        /\ Ended(1) => (Main.exit.tag = "success" /\ Len(SlowLines) >= 3)

\* the parent ended after two lines of the slow task, which then logged three more and ended
C21_Witness ==
    /\ fExample = "lifetime_example1"
    /\ Ended(1)
    /\ SlowFibers # {}
    /\ \A c \in SlowFibers : Ended(c) /\ fFibers[c].exit.tag = "success"
    /\ SlowLines = <<Running, Running, "done", Running, Running, Running>>
    /\ fNow = TICK * (SlowRepeats + 1)

\* C22: in example2, once the parent has logged "done" and interrupted the
\* daemon, no "slow task running" is logged any more, two are logged in all,
\* the daemon ends interrupted and the parent ends with a success
C22_InterruptStopsDaemon ==
    fExample = "lifetime_example2" =>
        /\ IsPrefix(SlowLines, <<Running, Running, "done", "slow task interrupted">>)
        /\ \A c \in SlowFibers :
              /\ fFibers[c].interrupt => (Len(RunningLines) = 2 /\ Main.pc > 4)
              /\ Ended(c) => fFibers[c].exit = Interrupted
        /\ Ended(1) =>
              /\ Main.exit.tag = "success"
              /\ Main.local = Interrupted
              /\ Len(RunningLines) = 2
              /\ \A c \in SlowFibers : Ended(c)

\* the parent has ended after the daemon it interrupted
C22_Witness ==
    /\ fExample = "lifetime_example2"
    /\ Ended(1)
    /\ SlowLines = <<Running, Running, "done", "slow task interrupted">>
    /\ \E c \in SlowFibers : fFibers[c].exit = Interrupted

----------------------------------------------------------------------------
(* Properties of a failed acquisition *)

NotAcquired == sFd = NoFd
AcquireFailed == NotAcquired /\ sFiber.pc = 2 /\ (sFiber.cause = "die" \/ sFiber.exit = "die")

\* C23: when the acquire step of the resource has not succeeded, its release
\* is not among the finalizers of the scope and does not run when the scope is
\* closed: no descriptor is closed and nothing is logged as released
C23_NoReleaseWithoutAcquire ==
    /\ NotAcquired =>
          /\ sScope.finalizers = <<>>
          /\ \A i \in 1..Len(sLog) : sLog[i][1] # "released"
    /\ AcquireFailed => sLog = <<>>
    /\ \A i \in 1..Len(sScope.finalizers) :
          sFd.state = "open" /\ sScope.finalizers[i] = sFd.fd
    /\ \A i \in 1..Len(sLog) : sLog[i][1] = "released" => (i > 1 /\ sLog[1] = <<"acquired", sLog[i][2], "open">>)

\* useFileDescriptor whose fs.open was rejected: the scope has been closed and nothing was released
C23_Witness ==
    /\ sProg = "scoped"
    /\ AcquireFailed
    /\ sFiber.exit = "die"
    /\ sScope = [state |-> "closed", finalizers |-> <<>>]
    /\ sLog = <<>>

====
